---- MODULE Spec2Model ----
(***************************************************************************)
(* Model of src/cpp/parallel_update.cpp: the CSR build of the incoming     *)
(* neighbours, and the step loop with its OpenMP parallel-for kernel, its   *)
(* reduction, the buffer swap and the history.                             *)
(*                                                                         *)
(* Doubles are modelled as exact rationals <<num, den>> (den > 0, lowest   *)
(* terms), with <<0, 0>> for NaN: the properties checked are those of      *)
(* exact arithmetic.                                                       *)
(***************************************************************************)
EXTENDS Integers, Sequences, FiniteSets, TLC

(* ------------------------------ bounds -------------------------------- *)
MaxN == 2
MaxEdges == 2
MaxT == 2
MaxW == 2
MaxTuneW == 6

(* ------------------------- exact arithmetic --------------------------- *)
Abs(x) == IF x < 0 THEN 0 - x ELSE x

RECURSIVE Gcd(_, _)
Gcd(a, b) == IF b = 0 THEN a ELSE Gcd(b, a % b)

\* <<n, d>> in lowest terms with a positive denominator
QNorm(n, d) ==
    LET g == Gcd(Abs(n), Abs(d))
        s == IF d < 0 THEN 0 - 1 ELSE 1
    IN  <<(s * n) \div g, (s * d) \div g>>

QInt(k) == <<k, 1>>
QZero == QInt(0)
QOne == QInt(1)
\* the double that is no number: every operation on it gives it back
QNaN == <<0, 0>>
IsNaN(a) == a[2] = 0
QAdd(a, b) ==
    IF IsNaN(a) \/ IsNaN(b) THEN QNaN
    ELSE QNorm(a[1] * b[2] + b[1] * a[2], a[2] * b[2])
QSub(a, b) ==
    IF IsNaN(a) \/ IsNaN(b) THEN QNaN
    ELSE QNorm(a[1] * b[2] - b[1] * a[2], a[2] * b[2])
QMul(a, b) ==
    IF IsNaN(a) \/ IsNaN(b) THEN QNaN
    ELSE QNorm(a[1] * b[1], a[2] * b[2])
\* division by a positive count: sum / double(end - start), global_sum / double(N)
QDivInt(a, k) == IF IsNaN(a) THEN QNaN ELSE QNorm(a[1], a[2] * k)
\* the sum of f[i] for i in lo..hi-1
RECURSIVE QSumRange(_, _, _)
QSumRange(f, lo, hi) ==
    IF lo >= hi THEN QZero ELSE QAdd(f[lo], QSumRange(f, lo + 1, hi))

(* ------------------------------ inputs -------------------------------- *)
\* node ids an edge line may name: one below and one above the range [0,N)
EdgeIds(n) == (0 - 1)..n
EdgeLists(n) == UNION {[1..k -> EdgeIds(n) \X EdgeIds(n)] : k \in 0..MaxEdges}
\* the values of the states file: rising from 0, or falling from 2
StateVecs(n) == {[v \in 0..(n - 1) |-> QInt(v)], [v \in 0..(n - 1) |-> QInt(2 - v)]}
\* the mixing coefficient argv[6]
Alphas == {QZero, QNorm(1, 2), QOne}
\* what a read outside the states vector may return: the eight bytes found
\* there, read as a double, which may be any number or no number
GarbageVals == {QInt(0), QInt(5), QNaN}

VARIABLES
    N,              \* node count of the header line
    edges,          \* the edge list read from the graph file
    T,              \* number of steps, argv[5]
    alpha,          \* mixing coefficient
    W,              \* used_threads
    initial_states, \* the first N values of the states file
    argc,           \* argument count, the program name included
    graph_open,     \* the graph file can be opened for reading
    N_ll, M_ll,     \* the two integers of the header line (0 0 when there is none)
    states_open,    \* the states file can be opened for reading
    read_count,     \* the number of values the states file holds, up to N
    chunk_env,      \* atoi of OMP_CHUNK_SIZE, 0 when it is not set
    hist_open,      \* the history file can be opened for writing
    out_open,       \* the final-states file can be opened for writing
    chunk,          \* int chunk
    sched,          \* the schedule clause of the parallel loop entered
    exit_code,      \* the value main returned, -1 while it has not
    warned,         \* the edge-count diagnostic of line 63 has been emitted
    history_file,   \* <<written, lines>> of the history file
    out_states_file, \* <<written, lines>> of the final-states file
    pc,             \* position of the main thread
    i,              \* index of the loop the main thread is in (edge or node)
    indeg, offsets, nbrs, pos,
    states, new_states, history, t, global_sum,
    wpc,            \* position of each worker of the team
    wv,             \* the iteration v the worker is at
    wlo, wend,      \* the chunk [wlo, wend) the worker holds
    priv,           \* the worker's private copy of global_sum
    nextIter,       \* first iteration not yet handed out (dynamic, guided)
    \* history variables, written by no statement of the program
    acc,            \* the accesses to the state buffers made in this step so far
    writers,        \* per index, the workers that wrote new_states[v] this step
    snapshot,       \* states as it was when the step's parallel loop started
    wstep,          \* the step a worker was forked for
    age_states, age_new, \* per element of each buffer, the step that wrote it
    pass1, pass2,   \* indices of the edges each CSR pass accepted
    slotw,          \* per slot of nbrs, the number of scatter writes
    strayw          \* scatter writes that landed outside the target's slice

environment == <<argc, graph_open, N_ll, M_ll, states_open, read_count, chunk_env,
                 hist_open, out_open>>
inputs == <<N, edges, T, alpha, W, initial_states, environment>>
outputs == <<exit_code, warned, history_file, out_states_file>>
csr == <<indeg, offsets, nbrs, pos>>
csrhist == <<pass1, pass2, slotw, strayw>>
bufs == <<states, new_states, age_states, age_new>>
team == <<wpc, wv, wlo, wend, priv, nextIter, wstep>>
vars == <<inputs, outputs, chunk, sched, pc, i, csr, csrhist, bufs, history, t,
          global_sum, team, acc, writers, snapshot>>

Nodes == 0..(N - 1)
Workers == 1..W

(* ----------------------- arguments and graph file --------------------- *)
\* a file that has not been written, and a file holding the lines given
Unwritten == <<FALSE, <<>>>>
Written(lines) == <<TRUE, lines>>

\* lines 10-13: fewer than five arguments end the run with exit code 1
CheckArgs ==
    /\ pc = "args"
    /\ IF argc < 6
       THEN exit_code' = 1 /\ pc' = "exited"
       ELSE exit_code' = exit_code /\ pc' = "open_graph"
    /\ UNCHANGED <<inputs, warned, history_file, out_states_file, chunk, sched, i,
                   csr, csrhist, bufs, history, t, global_sum, team, acc, writers,
                   snapshot>>

\* lines 29-30: a graph file that cannot be opened ends the run with exit code 2
OpenGraph ==
    /\ pc = "open_graph"
    /\ IF graph_open
       THEN exit_code' = exit_code /\ pc' = "header"
       ELSE exit_code' = 2 /\ pc' = "exited"
    /\ UNCHANGED <<inputs, warned, history_file, out_states_file, chunk, sched, i,
                   csr, csrhist, bufs, history, t, global_sum, team, acc, writers,
                   snapshot>>

\* lines 45 and 48: static_cast<size_t>(M_ll) of a negative M_ll is at least
\* 2^63, more than a vector can hold: edges.reserve(M) throws length_error
ReserveThrows(m) == m < 0

\* lines 31-48: N <= 0 (or no header line, N_ll left at 0) ends the run with
\* exit code 2; the exception of edges.reserve(M) is caught nowhere and
\* aborts the process
ReadHeader ==
    /\ pc = "header"
    /\ IF N_ll <= 0
       THEN exit_code' = 2 /\ pc' = "exited"
       ELSE /\ exit_code' = exit_code
            /\ pc' = IF ReserveThrows(M_ll) THEN "aborted" ELSE "edges"
    /\ UNCHANGED <<inputs, warned, history_file, out_states_file, chunk, sched, i,
                   csr, csrhist, bufs, history, t, global_sum, team, acc, writers,
                   snapshot>>

\* lines 49-64: the edges are read; a count other than M is reported and the
\* run goes on
ReadEdges ==
    /\ pc = "edges"
    /\ warned' = (Len(edges) # M_ll)
    /\ pc' = "indeg"
    /\ UNCHANGED <<inputs, exit_code, history_file, out_states_file, chunk, sched, i,
                   csr, csrhist, bufs, history, t, global_sum, team, acc, writers,
                   snapshot>>

(* ------------------------------ CSR build ----------------------------- *)
\* line 70: if (v < 0 || static_cast<size_t>(v) >= N) continue;
DroppedPass1(e) == e[2] < 0 \/ e[2] >= N

\* a scatter pass that also drops the edges whose source is out of range
DroppedPass2_SourceToo(e) == e[2] < 0 \/ e[2] >= N \/ e[1] < 0 \/ e[1] >= N

\* line 79: if (v < 0 || static_cast<size_t>(v) >= N) continue;
DroppedPass2(e) == e[2] < 0 \/ e[2] >= N

\* lines 68-72, one iteration of the in-degree pass
IndegPass ==
    /\ pc = "indeg"
    /\ i <= Len(edges)
    /\ LET e == edges[i] IN
         IF DroppedPass1(e)
         THEN UNCHANGED <<indeg, pass1>>
         ELSE /\ indeg' = [indeg EXCEPT ![e[2]] = @ + 1]
              /\ pass1' = pass1 \cup {i}
    /\ i' = i + 1
    /\ UNCHANGED <<inputs, outputs, chunk, sched, pc, offsets, nbrs, pos, pass2, slotw, strayw, bufs,
                   history, t, global_sum, team, acc, writers, snapshot>>

\* line 73: vector<size_t> offsets(N+1, 0)
IndegDone ==
    /\ pc = "indeg"
    /\ i > Len(edges)
    /\ offsets' = [k \in 0..N |-> 0]
    /\ pc' = "prefix"
    /\ i' = 0
    /\ UNCHANGED <<inputs, outputs, chunk, sched, indeg, nbrs, pos, csrhist, bufs, history, t,
                   global_sum, team, acc, writers, snapshot>>

\* line 74, one iteration of the prefix sum
PrefixSum ==
    /\ pc = "prefix"
    /\ i < N
    /\ offsets' = [offsets EXCEPT ![i + 1] = offsets[i] + indeg[i]]
    /\ i' = i + 1
    /\ UNCHANGED <<inputs, outputs, chunk, sched, pc, indeg, nbrs, pos, csrhist, bufs, history, t,
                   global_sum, team, acc, writers, snapshot>>

\* lines 75-76: vector<int> nbrs(offsets[N], -1); vector<size_t> pos = offsets;
PrefixDone ==
    /\ pc = "prefix"
    /\ i >= N
    /\ nbrs' = [j \in 0..(offsets[N] - 1) |-> 0 - 1]
    /\ slotw' = [j \in 0..(offsets[N] - 1) |-> 0]
    /\ pos' = offsets
    /\ pc' = "scatter"
    /\ i' = 1
    /\ UNCHANGED <<inputs, outputs, chunk, sched, indeg, offsets, pass1, pass2, strayw, bufs, history,
                   t, global_sum, team, acc, writers, snapshot>>

\* lines 77-81, one iteration of the scatter pass: nbrs[pos[v]++] = u.
\* A write at a position outside nbrs is a write past the vector: it leaves
\* nbrs as it is and is recorded in strayw.
ScatterPass ==
    /\ pc = "scatter"
    /\ i <= Len(edges)
    /\ LET e == edges[i]
           u == e[1]
           v == e[2]
           p == pos[v]
       IN  IF DroppedPass2(e)
           THEN UNCHANGED <<nbrs, pos, pass2, slotw, strayw>>
           ELSE /\ pos' = [pos EXCEPT ![v] = @ + 1]
                /\ pass2' = pass2 \cup {i}
                /\ IF p \in DOMAIN nbrs
                   THEN /\ nbrs' = [nbrs EXCEPT ![p] = u]
                        /\ slotw' = [slotw EXCEPT ![p] = @ + 1]
                   ELSE UNCHANGED <<nbrs, slotw>>
                /\ strayw' = IF p >= offsets[v] /\ p < offsets[v + 1]
                             THEN strayw ELSE strayw \cup {i}
    /\ i' = i + 1
    /\ UNCHANGED <<inputs, outputs, chunk, sched, pc, indeg, offsets, pass1, bufs, history, t,
                   global_sum, team, acc, writers, snapshot>>

\* lines 84-100 and 136-138 with a states file of at least N values: states
\* holds the first N of them, new_states is N zeros, history is empty
ReadStates ==
    /\ pc = "scatter"
    /\ i > Len(edges)
    /\ states_open
    /\ read_count >= N
    /\ states' = initial_states
    /\ new_states' = [v \in Nodes |-> QZero]
    /\ history' = <<>>
    /\ t' = 0
    /\ pc' = "tune"
    /\ age_states' = [v \in Nodes |-> 0 - 1]
    /\ age_new' = [v \in Nodes |-> 0 - 1]
    /\ UNCHANGED <<inputs, outputs, chunk, sched, i, csr, csrhist, global_sum, team, acc, writers,
                   snapshot>>

\* lines 85 and 97-100: the states file cannot be opened (exit 3), or holds
\* fewer than N values (exit 4)
StatesFail ==
    /\ pc = "scatter"
    /\ i > Len(edges)
    /\ ~states_open \/ read_count < N
    /\ exit_code' = IF ~states_open THEN 3 ELSE 4
    /\ pc' = "exited"
    /\ UNCHANGED <<inputs, warned, history_file, out_states_file, chunk, sched, i,
                   csr, csrhist, bufs, history, t, global_sum, team, acc, writers,
                   snapshot>>

(* ------------------------- schedule and chunk ------------------------- *)
Max(a, b) == IF a >= b THEN a ELSE b
Min(a, b) == IF a <= b THEN a ELSE b

\* lines 113-131, the chunk chosen when OMP_CHUNK_SIZE gives none
AutoChunk(n, w) ==
    IF n < 1000 THEN Max(1, n \div (w * 4))
    ELSE IF n < 10000
         THEN IF w <= 4 THEN Max(1, n \div (w * 8)) ELSE Max(1, n \div (w * 4))
         ELSE IF w <= 4 THEN Max(1, n \div (w * 16)) ELSE Max(1, n \div (w * 8))

\* a chunk taken from OMP_CHUNK_SIZE whenever atoi gives anything but 0
Chunk_EnvUnchecked(n, w, env) == IF env # 0 THEN env ELSE AutoChunk(n, w)

\* lines 106-132: a positive OMP_CHUNK_SIZE (env > 0) overrides the auto-tuning
Chunk(n, w, env) == IF env > 0 THEN env ELSE AutoChunk(n, w)

\* lines 151, 167, 184: the schedule clause of the loop that runs
Schedule(n, w) ==
    IF n < 500 THEN "guided" ELSE IF w > 4 THEN "dynamic" ELSE "static"

\* lines 105-132: the chunk size is chosen
Tune ==
    /\ pc = "tune"
    /\ chunk' = Chunk(N, W, chunk_env)
    /\ pc' = "loop"
    /\ UNCHANGED <<inputs, outputs, sched, i, csr, csrhist, bufs, history, t,
                   global_sum, team, acc, writers, snapshot>>

(* ------------------------------ step loop ----------------------------- *)
\* lines 146-153: t < T, global_sum = 0.0, and the team enters the parallel
\* loop; each thread's private copy of the reduction variable starts at 0
StepBegin ==
    /\ pc = "loop"
    /\ t < T
    /\ global_sum' = QZero
    /\ pc' = "parallel"
    /\ wpc' = [w \in Workers |-> "fetch"]
    /\ priv' = [w \in Workers |-> QZero]
    /\ wv' = [w \in Workers |-> 0]
    /\ sched' = Schedule(N, W)
    /\ wlo' = [w \in Workers |-> (w - 1 - W) * chunk]
    /\ wend' = [w \in Workers |-> 0]
    /\ nextIter' = 0
    /\ wstep' = [w \in Workers |-> t]
    /\ writers' = [v \in Nodes |-> <<>>]
    /\ snapshot' = states
    /\ acc' = {}
    /\ UNCHANGED <<inputs, outputs, chunk, i, csr, csrhist, bufs, history, t>>

\* line 146 with t >= T: the loop is left
StepLoopExit ==
    /\ pc = "loop"
    /\ t >= T
    /\ pc' = "done"
    /\ UNCHANGED <<inputs, outputs, chunk, sched, i, csr, csrhist, bufs, history, t, global_sum, team,
                   acc, writers, snapshot>>

\* The chunks [lo, hi) the worksharing loop may hand to worker w next.
\* guided: the next unassigned iterations, of a size the runtime picks;
\* dynamic: the next unassigned iterations, chunk of them;
\* static: the worker's own next chunk, chunks dealt round-robin.
NextChunks(w) ==
    LET c == chunk
        lo == wlo[w] + W * c
    IN  IF sched = "guided"
        THEN {<<nextIter, nextIter + k>> : k \in 1..(N - nextIter)}
        ELSE IF sched = "dynamic"
        THEN {<<nextIter, Min(nextIter + c, N)>> : k \in 1..Min(1, N - nextIter)}
        ELSE {<<lo, Min(lo + c, N)>> : k \in 1..(IF lo < N THEN 1 ELSE 0)}

\* a worksharing loop whose shared iteration counter is not advanced
Fetch_NoAdvance(w) ==
    /\ pc = "parallel"
    /\ wpc[w] = "fetch"
    /\ IF NextChunks(w) = {}
       THEN /\ wpc' = [wpc EXCEPT ![w] = "barrier"]
            /\ wv' = [wv EXCEPT ![w] = 0]
            /\ wlo' = [wlo EXCEPT ![w] = 0]
            /\ wend' = [wend EXCEPT ![w] = 0]
            /\ UNCHANGED nextIter
       ELSE \E ch \in NextChunks(w) :
            /\ wlo' = [wlo EXCEPT ![w] = ch[1]]
            /\ wend' = [wend EXCEPT ![w] = ch[2]]
            /\ wv' = [wv EXCEPT ![w] = ch[1]]
            /\ nextIter' = nextIter
            /\ wpc' = [wpc EXCEPT ![w] = "body"]
    /\ UNCHANGED <<inputs, outputs, chunk, sched, pc, i, csr, csrhist, bufs, history, t, global_sum,
                   priv, wstep, writers, snapshot, acc>>

\* lines 153-154 (170-171, 186-187): a thread takes its next chunk, or finds
\* none left and waits at the barrier that ends the loop (its loop variables
\* are gone then: they are set to 0)
Fetch(w) ==
    /\ pc = "parallel"
    /\ wpc[w] = "fetch"
    /\ IF NextChunks(w) = {}
       THEN /\ wpc' = [wpc EXCEPT ![w] = "barrier"]
            /\ wv' = [wv EXCEPT ![w] = 0]
            /\ wlo' = [wlo EXCEPT ![w] = 0]
            /\ wend' = [wend EXCEPT ![w] = 0]
            /\ UNCHANGED nextIter
       ELSE \E ch \in NextChunks(w) :
            /\ wlo' = [wlo EXCEPT ![w] = ch[1]]
            /\ wend' = [wend EXCEPT ![w] = ch[2]]
            /\ wv' = [wv EXCEPT ![w] = ch[1]]
            /\ nextIter' = IF sched = "static" THEN nextIter ELSE ch[2]
            /\ wpc' = [wpc EXCEPT ![w] = "body"]
    /\ UNCHANGED <<inputs, outputs, chunk, sched, pc, i, csr, csrhist, bufs, history, t, global_sum,
                   priv, wstep, writers, snapshot, acc>>

\* the positions j of v's slice whose entry is no index of the states vector
Stray(v) == {j \in offsets[v]..(offsets[v + 1] - 1) : nbrs[j] \notin Nodes}

\* an update without the start == end branch: the empty sum taken for the mean
UpdateValue_NoIsolatedBranch(cur, v, g) ==
    LET start == offsets[v]
        end == offsets[v + 1]
        rd == [j \in start..(end - 1) |->
                 IF nbrs[j] \in Nodes THEN cur[nbrs[j]] ELSE g[j]]
        sum == QSumRange(rd, start, end)
        avg == IF start = end THEN sum ELSE QDivInt(sum, end - start)
    IN  QAdd(QMul(QSub(QOne, alpha), cur[v]), QMul(alpha, avg))

\* an update that adds the mean of the sources without the factor alpha
UpdateValue_MeanUnscaled(cur, v, g) ==
    LET start == offsets[v]
        end == offsets[v + 1]
        rd == [j \in start..(end - 1) |->
                 IF nbrs[j] \in Nodes THEN cur[nbrs[j]] ELSE g[j]]
        sum == QSumRange(rd, start, end)
        avg == QDivInt(sum, end - start)
    IN  IF start = end
        THEN cur[v]
        ELSE QAdd(QMul(QSub(QOne, alpha), cur[v]), avg)

\* an update that takes the sum of the sources for their mean
UpdateValue_SumForMean(cur, v, g) ==
    LET start == offsets[v]
        end == offsets[v + 1]
        rd == [j \in start..(end - 1) |->
                 IF nbrs[j] \in Nodes THEN cur[nbrs[j]] ELSE g[j]]
        sum == QSumRange(rd, start, end)
    IN  IF start = end
        THEN cur[v]
        ELSE QAdd(QMul(QSub(QOne, alpha), cur[v]), QMul(alpha, sum))

\* lines 155-164, the value written to new_states[v]: cur is the vector read,
\* g gives what the read at a stray position returns
UpdateValue(cur, v, g) ==
    LET start == offsets[v]
        end == offsets[v + 1]
        rd == [j \in start..(end - 1) |->
                 IF nbrs[j] \in Nodes THEN cur[nbrs[j]] ELSE g[j]]
        sum == QSumRange(rd, start, end)
        avg == QDivInt(sum, end - start)
    IN  IF start = end
        THEN cur[v]
        ELSE QAdd(QMul(QSub(QOne, alpha), cur[v]), QMul(alpha, avg))

\* the accesses of lines 155-164 by thread w at iteration v
UpdateAccesses(w, v) ==
    {<<"r", "states", v, w>>, <<"w", "new_states", v, w>>}
    \cup {<<"r", "states", nbrs[j], w>> : j \in offsets[v]..(offsets[v + 1] - 1)}

\* an update in place: the new value stored into states itself
Update_InPlace(w) ==
    /\ pc = "parallel"
    /\ wpc[w] = "body"
    /\ LET v == wv[w] IN
       \E g \in [Stray(v) -> GarbageVals] :
         /\ states' = [states EXCEPT ![v] = UpdateValue(states, v, g)]
         /\ age_states' = [age_states EXCEPT ![v] = t]
         /\ writers' = [writers EXCEPT ![v] = Append(@, w)]
         /\ acc' = acc \cup (UpdateAccesses(w, v) \ {<<"w", "new_states", v, w>>})
                       \cup {<<"w", "states", v, w>>}
    /\ wpc' = [wpc EXCEPT ![w] = "sum"]
    /\ UNCHANGED <<inputs, outputs, chunk, sched, pc, i, csr, csrhist, new_states, age_new, history, t,
                   global_sum, wv, wlo, wend, priv, nextIter, wstep, snapshot>>

\* lines 155-164: thread w computes and stores new_states[v]
Update(w) ==
    /\ pc = "parallel"
    /\ wpc[w] = "body"
    /\ LET v == wv[w] IN
       \E g \in [Stray(v) -> GarbageVals] :
         /\ new_states' = [new_states EXCEPT ![v] = UpdateValue(states, v, g)]
         /\ age_new' = [age_new EXCEPT ![v] = t]
         /\ writers' = [writers EXCEPT ![v] = Append(@, w)]
         /\ acc' = acc \cup UpdateAccesses(w, v)
    /\ wpc' = [wpc EXCEPT ![w] = "sum"]
    /\ UNCHANGED <<inputs, outputs, chunk, sched, pc, i, csr, csrhist, states, age_states, history, t,
                   global_sum, wv, wlo, wend, priv, nextIter, wstep, snapshot>>

\* line 161 with nbrs[j] outside [0,N): the read is outside the vector and
\* the process may be killed by it
Fault(w) ==
    /\ pc = "parallel"
    /\ wpc[w] = "body"
    /\ Stray(wv[w]) # {}
    /\ pc' = "crashed"
    /\ acc' = acc \cup {<<"r", "states", nbrs[j], w>> : j \in Stray(wv[w])}
    /\ UNCHANGED <<inputs, outputs, chunk, sched, i, csr, csrhist, bufs, history, t, global_sum, team,
                   writers, snapshot>>

\* a loop without the reduction clause: the threads add to global_sum itself
Accumulate_Shared(w) ==
    /\ pc = "parallel"
    /\ wpc[w] = "sum"
    /\ LET v == wv[w] IN
         /\ global_sum' = QAdd(global_sum, new_states[v])
         /\ acc' = acc \cup {<<"r", "new_states", v, w>>}
         /\ wv' = [wv EXCEPT ![w] = v + 1]
         /\ wpc' = [wpc EXCEPT ![w] = IF v + 1 < wend[w] THEN "body" ELSE "fetch"]
    /\ UNCHANGED <<inputs, outputs, chunk, sched, pc, i, csr, csrhist, bufs, history, t, priv,
                   wlo, wend, nextIter, wstep, writers, snapshot>>

\* line 165: global_sum += new_states[v], on the thread's private copy; then
\* ++v, and the thread goes on in its chunk or asks for the next one
Accumulate(w) ==
    /\ pc = "parallel"
    /\ wpc[w] = "sum"
    /\ LET v == wv[w] IN
         /\ priv' = [priv EXCEPT ![w] = QAdd(@, new_states[v])]
         /\ acc' = acc \cup {<<"r", "new_states", v, w>>}
         /\ wv' = [wv EXCEPT ![w] = v + 1]
         /\ wpc' = [wpc EXCEPT ![w] = IF v + 1 < wend[w] THEN "body" ELSE "fetch"]
    /\ UNCHANGED <<inputs, outputs, chunk, sched, pc, i, csr, csrhist, bufs, history, t, global_sum,
                   wlo, wend, nextIter, wstep, writers, snapshot>>

RECURSIVE QSumPriv(_, _)
QSumPriv(p, w) == IF w = 0 THEN QZero ELSE QAdd(p[w], QSumPriv(p, w - 1))

\* a loop with nowait: the main thread goes on when its own share is done
Join_NoBarrier ==
    /\ pc = "parallel"
    /\ wpc[1] = "barrier"
    /\ global_sum' = QAdd(global_sum, QSumPriv(priv, W))
    /\ wpc' = [wpc EXCEPT ![1] = "idle"]
    /\ pc' = "swap"
    /\ UNCHANGED <<inputs, outputs, chunk, sched, i, csr, csrhist, bufs, history, t, wv, wlo, wend,
                   priv, nextIter, wstep, writers, snapshot, acc>>

\* the end of the parallel loop: the implicit barrier, at which the private
\* copies are combined into global_sum (reduction(+:global_sum))
Join ==
    /\ pc = "parallel"
    /\ \A w \in Workers : wpc[w] = "barrier"
    /\ global_sum' = QAdd(global_sum, QSumPriv(priv, W))
    /\ wpc' = [w \in Workers |-> "idle"]
    /\ pc' = "swap"
    /\ UNCHANGED <<inputs, outputs, chunk, sched, i, csr, csrhist, bufs, history, t, wv, wlo, wend,
                   priv, nextIter, wstep, writers, snapshot, acc>>

\* line 201: states.swap(new_states)
Swap ==
    /\ pc = "swap"
    /\ states' = new_states
    /\ new_states' = states
    /\ age_states' = age_new
    /\ age_new' = age_states
    /\ pc' = "push"
    /\ UNCHANGED <<inputs, outputs, chunk, sched, i, csr, csrhist, history, t, global_sum, team, acc,
                   writers, snapshot>>

\* a recorder that keeps one entry and overwrites it
Push_Overwrite ==
    /\ pc = "push"
    /\ history' = IF history = <<>>
                  THEN <<QDivInt(global_sum, N)>>
                  ELSE [history EXCEPT ![Len(history)] = QDivInt(global_sum, N)]
    /\ t' = t + 1
    /\ pc' = "loop"
    /\ UNCHANGED <<inputs, outputs, chunk, sched, i, csr, csrhist, bufs, global_sum, team, acc,
                   writers, snapshot>>

\* line 202 and the ++t of line 146: history.push_back(global_sum / double(N))
Push ==
    /\ pc = "push"
    /\ history' = Append(history, QDivInt(global_sum, N))
    /\ t' = t + 1
    /\ pc' = "loop"
    /\ UNCHANGED <<inputs, outputs, chunk, sched, i, csr, csrhist, bufs, global_sum, team, acc,
                   writers, snapshot>>

(* --------------------------- specification ---------------------------- *)
\* the state when the graph file has been read (line 66): a header with
\* N > 0 and the edge lines, each any pair of ids
(***************************************************************************)
(* The run as a function of the edge list: lines 67-81 and 146-202 on an  *)
(* edge list p taken whole, one thread, g the value every read outside    *)
(* the states vector returns.                                              *)
(***************************************************************************)

\* lines 76-81: the slice of v, the sources of the edges into v in list order
SliceOf(p, v) ==
    LET F[k \in 0..Len(p)] ==
            IF k = 0 THEN <<>>
            ELSE IF p[k][2] = v THEN Append(F[k - 1], p[k][1]) ELSE F[k - 1]
    IN  F[Len(p)]

\* lines 154-166 for every v: one step from the vector cur
StepOf(p, cur, g) ==
    [v \in Nodes |->
        LET sl == SliceOf(p, v)
            rd == [j \in 1..Len(sl) |-> IF sl[j] \in Nodes THEN cur[sl[j]] ELSE g]
            sum == QSumRange(rd, 1, Len(sl) + 1)
        IN  IF Len(sl) = 0
            THEN cur[v]
            ELSE QAdd(QMul(QSub(QOne, alpha), cur[v]),
                      QMul(alpha, QDivInt(sum, Len(sl))))]

\* lines 146-202: the states after k steps
RECURSIVE StatesAfter(_, _, _)
StatesAfter(p, k, g) ==
    IF k = 0 THEN initial_states ELSE StepOf(p, StatesAfter(p, k - 1, g), g)

\* line 202, for every step: the history of a run of T steps
HistoryOf(p, g) ==
    [k \in 1..T |-> QDivInt(QSumRange(StatesAfter(p, k, g), 0, N), N)]

\* lines 225-229: the history file is opened, written and closed; when it
\* cannot be opened the run ends with exit code 5
WriteHistory ==
    /\ pc = "done"
    /\ IF hist_open
       THEN /\ history_file' = Written(history)
            /\ exit_code' = exit_code
            /\ pc' = "write_states"
       ELSE /\ history_file' = history_file
            /\ exit_code' = 5
            /\ pc' = "exited"
    /\ UNCHANGED <<inputs, warned, out_states_file, chunk, sched, i, csr, csrhist,
                   bufs, history, t, global_sum, team, acc, writers, snapshot>>

\* lines 231-238: the final-states file is opened, written and closed and main
\* returns 0; when it cannot be opened the run ends with exit code 6
WriteStates ==
    /\ pc = "write_states"
    /\ IF out_open
       THEN out_states_file' = Written(states) /\ exit_code' = 0
       ELSE out_states_file' = out_states_file /\ exit_code' = 6
    /\ pc' = "exited"
    /\ UNCHANGED <<inputs, warned, history_file, chunk, sched, i, csr, csrhist,
                   bufs, history, t, global_sum, team, acc, writers, snapshot>>

\* the variables of main as their declarations leave them
Blank ==
    /\ i = 1
    /\ indeg = [v \in 0..(N - 1) |-> 0]
    /\ offsets = <<>>
    /\ nbrs = <<>>
    /\ pos = <<>>
    /\ states = <<>>
    /\ new_states = <<>>
    /\ history = <<>>
    /\ t = 0
    /\ global_sum = QZero
    /\ wpc = [w \in 1..W |-> "idle"]
    /\ wv = [w \in 1..W |-> 0]
    /\ wlo = [w \in 1..W |-> 0]
    /\ wend = [w \in 1..W |-> 0]
    /\ priv = [w \in 1..W |-> QZero]
    /\ nextIter = 0
    /\ acc = {}
    /\ writers = [v \in 0..(N - 1) |-> <<>>]
    /\ snapshot = <<>>
    /\ wstep = [w \in 1..W |-> 0 - 1]
    /\ age_states = <<>>
    /\ age_new = <<>>
    /\ pass1 = {}
    /\ pass2 = {}
    /\ slotw = <<>>
    /\ strayw = {}
    /\ chunk = 1
    /\ sched = "none"
    /\ exit_code = 0 - 1
    /\ warned = FALSE
    /\ history_file = Unwritten
    /\ out_states_file = Unwritten

\* the state at line 66 of a run whose arguments and files are all in order:
\* the graph file gave N and the edges, its header declared their count
Init ==
    /\ N \in 1..MaxN
    /\ edges \in EdgeLists(N)
    /\ T \in 0..MaxT
    /\ alpha \in Alphas
    /\ W \in 1..MaxW
    /\ initial_states \in StateVecs(N)
    /\ argc = 8
    /\ graph_open = TRUE
    /\ N_ll = N
    /\ M_ll = Len(edges)
    /\ states_open = TRUE
    /\ read_count = N
    /\ chunk_env = 0
    /\ hist_open = TRUE
    /\ out_open = TRUE
    /\ pc = "indeg"
    /\ Blank

Next ==
    \/ IndegPass
    \/ IndegDone
    \/ PrefixSum
    \/ PrefixDone
    \/ ScatterPass
    \/ ReadStates
    \/ Tune
    \/ StepBegin
    \/ StepLoopExit
    \/ \E w \in Workers : Fetch(w)
    \/ \E w \in Workers : Update(w)
    \/ \E w \in Workers : Fault(w)
    \/ \E w \in Workers : Accumulate(w)
    \/ Join
    \/ Swap
    \/ Push

Spec == Init /\ [][Next]_vars

\* the CSR build alone, on every edge list, up to the reading of the states
InitCSR ==
    /\ T = 0
    /\ W = 1
    /\ alpha = QZero
    /\ Init

NextCSR ==
    \/ IndegPass
    \/ IndegDone
    \/ PrefixSum
    \/ PrefixDone
    \/ ScatterPass
    \/ ReadStates

SpecCSR == InitCSR /\ [][NextCSR]_vars

\* the choice of chunk and schedule alone, lines 84-153 on a graph without
\* edges: node counts around the thresholds 500, 1000 and 10000, thread
\* counts around 4, OMP_CHUNK_SIZE negative, unset and positive
TuneSizes == {1, 3, 499, 500, 501, 999, 1000, 1001, 9999, 10000, 10001, 20000}
TuneThreads == 1..MaxTuneW
TuneEnvs == {0 - 3, 0, 7}

InitTune ==
    /\ N \in TuneSizes
    /\ edges = <<>>
    /\ T = 1
    /\ alpha = QNorm(1, 2)
    /\ W \in TuneThreads
    /\ initial_states \in StateVecs(N)
    /\ argc = 8
    /\ graph_open = TRUE
    /\ N_ll = N
    /\ M_ll = 0
    /\ states_open = TRUE
    /\ read_count = N
    /\ chunk_env \in TuneEnvs
    /\ hist_open = TRUE
    /\ out_open = TRUE
    /\ pc = "scatter"
    /\ i = 1
    /\ indeg = [v \in 0..(N - 1) |-> 0]
    /\ offsets = [k \in 0..N |-> 0]
    /\ nbrs = <<>>
    /\ pos = [k \in 0..N |-> 0]
    /\ states = <<>>
    /\ new_states = <<>>
    /\ history = <<>>
    /\ t = 0
    /\ global_sum = QZero
    /\ wpc = [w \in 1..W |-> "idle"]
    /\ wv = [w \in 1..W |-> 0]
    /\ wlo = [w \in 1..W |-> 0]
    /\ wend = [w \in 1..W |-> 0]
    /\ priv = [w \in 1..W |-> QZero]
    /\ nextIter = 0
    /\ acc = {}
    /\ writers = [v \in 0..(N - 1) |-> <<>>]
    /\ snapshot = <<>>
    /\ wstep = [w \in 1..W |-> 0 - 1]
    /\ age_states = <<>>
    /\ age_new = <<>>
    /\ pass1 = {}
    /\ pass2 = {}
    /\ slotw = <<>>
    /\ strayw = {}
    /\ chunk = 1
    /\ sched = "none"
    /\ exit_code = 0 - 1
    /\ warned = FALSE
    /\ history_file = Unwritten
    /\ out_states_file = Unwritten

NextTune ==
    \/ ReadStates
    \/ Tune
    \/ StepBegin

SpecTune == InitTune /\ [][NextTune]_vars

\* main from its first line to its return, one thread, one node, at most one
\* edge and one step, under every outcome of the argument check, of the
\* opening of the four files, of the header line and of the states count
InitIO ==
    /\ N = 1
    /\ edges \in {e \in EdgeLists(N) : Len(e) <= 1}
    /\ T \in 0..1
    /\ alpha = QNorm(1, 2)
    /\ W = 1
    /\ initial_states \in StateVecs(N)
    /\ argc \in {5, 8}
    /\ graph_open \in BOOLEAN
    /\ N_ll \in {0 - 1, 0, N}
    /\ M_ll \in {0 - 1, Len(edges), Len(edges) + 1}
    /\ states_open \in BOOLEAN
    /\ read_count \in {N - 1, N}
    /\ chunk_env = 0
    /\ hist_open \in BOOLEAN
    /\ out_open \in BOOLEAN
    /\ pc = "args"
    /\ Blank

NextIO ==
    \/ CheckArgs
    \/ OpenGraph
    \/ ReadHeader
    \/ ReadEdges
    \/ IndegPass
    \/ IndegDone
    \/ PrefixSum
    \/ PrefixDone
    \/ ScatterPass
    \/ ReadStates
    \/ StatesFail
    \/ Tune
    \/ StepBegin
    \/ StepLoopExit
    \/ \E w \in Workers : Fetch(w)
    \/ \E w \in Workers : Update(w)
    \/ \E w \in Workers : Fault(w)
    \/ \E w \in Workers : Accumulate(w)
    \/ Join
    \/ Swap
    \/ Push
    \/ WriteHistory
    \/ WriteStates

SpecIO == InitIO /\ [][NextIO]_vars

\* main from its first line to its return with arguments and files in order,
\* on the graphs of at most one edge, the threads scheduled fairly
InitFair ==
    /\ N \in 1..MaxN
    /\ edges \in {e \in EdgeLists(N) : Len(e) <= 1}
    /\ T \in 0..MaxT
    /\ alpha = QNorm(1, 2)
    /\ W \in 1..MaxW
    /\ initial_states \in StateVecs(N)
    /\ argc = 8
    /\ graph_open = TRUE
    /\ N_ll = N
    /\ M_ll = Len(edges)
    /\ states_open = TRUE
    /\ read_count = N
    /\ chunk_env = 0
    /\ hist_open = TRUE
    /\ out_open = TRUE
    /\ pc = "args"
    /\ Blank

\* the statements the main thread runs alone
MainThread ==
    \/ CheckArgs
    \/ OpenGraph
    \/ ReadHeader
    \/ ReadEdges
    \/ IndegPass
    \/ IndegDone
    \/ PrefixSum
    \/ PrefixDone
    \/ ScatterPass
    \/ ReadStates
    \/ Tune
    \/ StepBegin
    \/ StepLoopExit
    \/ Join
    \/ Swap
    \/ Push
    \/ WriteHistory
    \/ WriteStates

NextFair ==
    \/ MainThread
    \/ \E w \in Workers : Fetch(w)
    \/ \E w \in Workers : Update(w)
    \/ \E w \in Workers : Fault(w)
    \/ \E w \in Workers : Accumulate(w)

\* worker w is at the body of an iteration: the state in which Update(w),
\* and on a stray entry Fault(w), can happen, and no other step of w
AtBody(w) == w \in Workers /\ pc = "parallel" /\ wpc[w] = "body"

\* every thread that can take its next step takes it in the end: the main
\* thread its next statement, each worker of the team (lines 153-166) the
\* fetch of its next chunk, the body of its iteration (Update(w) or Fault(w):
\* weak fairness of that step says the worker is not at the body for ever)
\* and the addition to its partial sum
Fairness ==
    /\ WF_vars(MainThread)
    /\ \A w \in 1..MaxW :
         /\ WF_vars(w \in Workers /\ Fetch(w))
         /\ []<>~AtBody(w)
         /\ WF_vars(w \in Workers /\ Accumulate(w))

SpecFair == InitFair /\ [][NextFair]_vars /\ Fairness

(* ------------------------- CSR build: claims -------------------------- *)
\* the scatter pass has ended
ScatterEnded == pc \notin {"indeg", "prefix"} /\ (pc = "scatter" => i > Len(edges))

\* an edge with both endpoints in [0,N)
BothInRange(e) == e[1] \in Nodes /\ e[2] \in Nodes

\* the slice nbrs[offsets[v] .. offsets[v+1]) as a sequence
Slice(v) == [k \in 1..(offsets[v + 1] - offsets[v]) |-> nbrs[offsets[v] + k - 1]]

\* the sources, in input order, of the edges to v with both endpoints in [0,N)
RECURSIVE SourcesTo(_, _)
SourcesTo(v, k) ==
    IF k = 0 THEN <<>>
    ELSE IF BothInRange(edges[k]) /\ edges[k][2] = v
         THEN Append(SourcesTo(v, k - 1), edges[k][1])
         ELSE SourcesTo(v, k - 1)

RECURSIVE SumIndeg(_)
SumIndeg(n) == IF n = 0 THEN 0 ELSE indeg[n - 1] + SumIndeg(n - 1)

\* C6: after the CSR build, offsets[N] is the number of edges with both
\* endpoints in [0,N) and every entry of nbrs lies in [0,N).
C6_CsrEntriesValid ==
    ScatterEnded =>
        /\ offsets[N] = Cardinality({k \in 1..Len(edges) : BothInRange(edges[k])})
        /\ \A j \in DOMAIN nbrs : nbrs[j] \in Nodes

\* C7: after the CSR build, the slice of every target v holds exactly the
\* sources of the accepted edges (both endpoints in [0,N)) with target v,
\* each occurrence once, in the order of the input list.
C7_SliceIsSources ==
    ScatterEnded => \A v \in Nodes : Slice(v) = SourcesTo(v, Len(edges))

\* the sources, in input order, of the edges to v that the two passes keep
RECURSIVE KeptSourcesTo(_, _)
KeptSourcesTo(v, k) ==
    IF k = 0 THEN <<>>
    ELSE IF ~DroppedPass2(edges[k]) /\ edges[k][2] = v
         THEN Append(KeptSourcesTo(v, k - 1), edges[k][1])
         ELSE KeptSourcesTo(v, k - 1)

\* what the build does give: the slice of v holds the sources of all edges
\* with target v, in input order, whether the source is a node or not
Csr_SliceIsKeptSources ==
    ScatterEnded => \A v \in Nodes : Slice(v) = KeptSourcesTo(v, Len(edges))

\* C8: offsets[0] = 0, offsets is non-decreasing and ends at the sum of indeg;
\* the two passes accept the same edges; when the scatter ends pos[v] =
\* offsets[v+1], every slot of nbrs has been written exactly once, and no
\* scatter write landed outside the slice of its target.
C8_PassesAgree ==
    /\ strayw = {}
    /\ \A j \in DOMAIN slotw : slotw[j] <= 1
    /\ pc \notin {"indeg", "prefix"} =>
          /\ offsets[0] = 0
          /\ \A v \in Nodes : offsets[v] <= offsets[v + 1]
          /\ offsets[N] = SumIndeg(N)
          /\ DOMAIN nbrs = 0..(offsets[N] - 1)
    /\ ScatterEnded =>
          /\ pass1 = pass2
          /\ \A v \in Nodes : pos[v] = offsets[v + 1]
          /\ \A j \in DOMAIN slotw : slotw[j] = 1

\* the scatter has ended on a list of which one edge was dropped and one,
\* with a source outside [0,N), was kept
C8_Witness ==
    /\ ScatterEnded
    /\ Len(edges) = 2
    /\ Cardinality(pass2) = 1
    /\ \E k \in pass2 : edges[k][1] \notin Nodes

(* --------------------------- kernel: claims --------------------------- *)
\* the sum of f over the nodes 0..n-1
RECURSIVE QSumNodes(_, _)
QSumNodes(f, n) == IF n = 0 THEN QZero ELSE QAdd(f[n - 1], QSumNodes(f, n - 1))

\* the update rule as the specification states it, on a vector cur: defined
\* where every entry of v's slice is a node
RuleValue(cur, v) ==
    LET d == offsets[v + 1] - offsets[v]
        in == [j \in offsets[v]..(offsets[v + 1] - 1) |-> cur[nbrs[j]]]
    IN  IF d = 0
        THEN cur[v]
        ELSE QAdd(QMul(QSub(QOne, alpha), cur[v]),
                  QMul(alpha, QDivInt(QSumRange(in, offsets[v], offsets[v + 1]), d)))

\* C1: when a step's loop has ended, next[v] is the update rule applied to
\* the snapshot of current taken at the start of the step, for every v,
\* whatever the partition and the interleaving were (the rule has a value
\* when every entry of v's slice is a node).
C1_StepIsRuleOfSnapshot ==
    pc = "swap" =>
        \A v \in Nodes : Stray(v) = {} /\ new_states[v] = RuleValue(snapshot, v)

\* the same for the nodes whose slice holds node ids only
Kernel_RuleOfSnapshotInRange ==
    pc = "swap" =>
        \A v \in Nodes :
            (Stray(v) = {}) => (new_states[v] = RuleValue(snapshot, v))

\* C2 as stated: within a step every read of state is a read of current and
\* every write of state is a write of next.
C2_ReadsCurrentWritesNext ==
    \A a \in acc :
        /\ (a[1] = "r") => (a[2] = "states")
        /\ (a[1] = "w") => (a[2] = "new_states")

\* C2 amended: within a step no worker writes current; every write is a
\* write of next; the only read of next is a worker's read of the element
\* it has itself written in this step, and current stays what it was when
\* the step began.
C2_ReadsOwnNextOnly ==
    /\ \A a \in acc :
         /\ (a[1] = "w") => (a[2] = "new_states")
         /\ (a[1] = "r" /\ a[2] = "new_states") => (writers[a[3]] = <<a[4]>>)
    /\ pc \in {"parallel", "swap"} => states = snapshot

\* a worker has read back an element it wrote in this step while a worker
\* is in the body of the loop
C2_Witness ==
    /\ pc = "parallel"
    /\ \E a \in acc : a[1] = "r" /\ a[2] = "new_states"
    /\ \E w \in Workers : wpc[w] = "body"

\* C3: in every step each index of next is written exactly once, by one
\* worker, and after the swap every element of current is one written in
\* the step that has just ended.
C3_WrittenOncePerStep ==
    /\ \A v \in DOMAIN writers : Len(writers[v]) <= 1
    /\ pc \in {"swap", "push"} => \A v \in Nodes : Len(writers[v]) = 1
    /\ (pc = "push" \/ (pc \in {"loop", "parallel", "swap", "done"} /\ t > 0)) =>
          \A v \in Nodes : age_states[v] = IF pc = "push" THEN t ELSE t - 1

\* the second step has been swapped in after two workers wrote one index each
C3_Witness ==
    /\ pc = "push"
    /\ t = 1
    /\ \E v1, v2 \in Nodes : /\ writers[v1] # <<>>
                              /\ writers[v2] # <<>>
                              /\ writers[v1] # writers[v2]

\* C4: steps never overlap: the swap of step t happens only when every
\* worker has left the loop and every element of next has been written in
\* step t; the workers active at any moment were all forked for the current
\* step, and they read a current that the previous swap has put in place.
C4_StepsDoNotOverlap ==
    /\ \A w \in Workers : (wpc[w] # "idle") =>
          (pc \in {"parallel", "crashed"} /\ wstep[w] = t)
    /\ pc \in {"loop", "swap", "push", "done"} => \A w \in Workers : wpc[w] = "idle"
    /\ pc = "swap" => \A v \in Nodes : age_new[v] = t
    /\ (pc = "parallel" /\ t > 0) => \A v \in Nodes : age_states[v] = t - 1

\* the loop of the second step has been joined by two workers
C4_Witness ==
    /\ pc = "swap"
    /\ t = 1
    /\ W = 2
    /\ wstep = <<1, 1>>

\* the sum of next[v] over the iterations worker w has completed
RECURSIVE OwnSum(_, _)
OwnSum(w, n) ==
    IF n = 0 THEN QZero
    ELSE IF writers[n - 1] = <<w>> /\ ~(wpc[w] = "sum" /\ wv[w] = n - 1)
         THEN QAdd(new_states[n - 1], OwnSum(w, n - 1))
         ELSE OwnSum(w, n - 1)

\* C5: during a step the shared global_sum is not touched and each worker's
\* private partial is the sum of the elements it wrote itself; after the join
\* global_sum is the sum of next[v] over all v, and the value appended to
\* history is that sum divided by N.
C5_ReductionIsSumOfNext ==
    /\ pc = "parallel" =>
          /\ global_sum = QZero
          /\ \A w \in Workers : priv[w] = OwnSum(w, N)
    /\ pc = "swap" => global_sum = QSumNodes(new_states, N)
    /\ pc = "push" => global_sum = QSumNodes(states, N)
    /\ (pc = "loop" /\ t > 0) =>
          /\ global_sum = QSumNodes(states, N)
          /\ history[t] = QDivInt(global_sum, N)

\* a join at which two workers each brought a partial that is not zero
C5_Witness ==
    /\ pc = "swap"
    /\ W = 2
    /\ priv[1] # QZero
    /\ priv[2] # QZero
    /\ global_sum = QAdd(priv[1], priv[2])

\* C9, the state part: |history| is the number of completed steps, both
\* buffers have length N, the last entry is the mean of the vector the last
\* step produced, and a run that ends has |history| = T (T = 0: no entry,
\* final states = initial states).
C9_Lengths ==
    /\ pc \notin {"indeg", "prefix", "scatter"} =>
          /\ Len(history) = t
          /\ DOMAIN states = Nodes
          /\ DOMAIN new_states = Nodes
    /\ (pc = "loop" /\ t > 0) => history[t] = QDivInt(QSumNodes(states, N), N)
    /\ pc = "done" =>
          /\ Len(history) = T
          /\ (T = 0) => (history = <<>> /\ states = initial_states)

\* C9, the step part: no step changes an entry already appended
C9_AppendOnly ==
    /\ Len(history') >= Len(history)
    /\ \A k \in 1..Len(history) : history'[k] = history[k]

\* C9: at every step boundary |history| equals the number of completed
\* steps, entries once appended never change, both buffers have length N; a
\* run ends with |history| = T and |final_states| = N, and history[t] is the
\* mean of the state vector produced by step t.
C9_HistoryIsAppendOnlyOfLengthT == []C9_Lengths /\ [][C9_AppendOnly]_vars

\* a run of two steps has ended with two different means recorded
C9_Witness ==
    /\ pc = "done"
    /\ T = 2
    /\ Len(history) = 2
    /\ history[1] # history[2]

\* C10: a node with an empty slice has its initial value at every step
\* boundary and when the run ends.
C10_IsolatedKeepsValue ==
    pc \in {"loop", "done"} =>
        \A v \in Nodes :
            (offsets[v + 1] = offsets[v]) => (states[v] = initial_states[v])

\* a run of two steps has ended in which one node has no incoming edge and
\* another node's state has changed
C10_Witness ==
    /\ pc = "done"
    /\ T = 2
    /\ \E v \in Nodes : offsets[v + 1] = offsets[v] /\ initial_states[v] # QZero
    /\ \E v \in Nodes : states[v] # initial_states[v]

(***************************************************************************)
(* The algebraic laws of the update rule.                                  *)
(***************************************************************************)

\* the mean of a vector over the nodes
Mean(f) == QDivInt(QSumNodes(f, N), N)

\* C11: when alpha is 0, then for any graph, any initial states and any T
\* the states at the end of every step are the initial states and every
\* history entry is the mean of the initial states.
C11_AlphaZeroFreezes ==
    (alpha = QZero /\ pc \in {"loop", "done"}) =>
        (/\ states = initial_states
         /\ \A k \in 1..Len(history) : history[k] = Mean(initial_states))

\* the law of C11 on the graphs whose slices hold nodes only
Alg_AlphaZeroFreezesInRange ==
    (alpha = QZero /\ pc \in {"loop", "done"} /\ \A v \in Nodes : Stray(v) = {}) =>
        (/\ states = initial_states
         /\ \A k \in 1..Len(history) : history[k] = Mean(initial_states))

\* the edge list is a permutation of the nodes: N edges, every node the
\* source of one and the target of one
IsPermutationGraph ==
    /\ Len(edges) = N
    /\ {edges[k][1] : k \in 1..Len(edges)} = Nodes
    /\ {edges[k][2] : k \in 1..Len(edges)} = Nodes

\* C12: when every node has in-degree exactly 1 and the edge relation is a
\* permutation of [0,N), then for every alpha every step keeps the mean,
\* mean(next) = mean(current), and every history entry is the mean of the
\* initial states.
C12_PermutationKeepsMean ==
    IsPermutationGraph =>
        (/\ (pc = "swap") => (Mean(new_states) = Mean(states))
         /\ \A k \in 1..Len(history) : history[k] = Mean(initial_states))

\* a run of two steps on the transposition of two nodes that moved the states
C12_Witness ==
    /\ IsPermutationGraph
    /\ pc = "done"
    /\ Len(history) = 2
    /\ \E k \in 1..Len(edges) : edges[k][1] # edges[k][2]
    /\ states # initial_states

\* a <= b, false when either is no number
QLe(a, b) == ~IsNaN(a) /\ ~IsNaN(b) /\ a[1] * b[2] <= b[1] * a[2]

\* the least and the greatest entry of a vector over the nodes
MinOf(f) == CHOOSE x \in {f[v] : v \in Nodes} : \A u \in Nodes : QLe(x, f[u])
MaxOf(f) == CHOOSE x \in {f[v] : v \in Nodes} : \A u \in Nodes : QLe(f[u], x)
Between(lo, x, hi) == QLe(lo, x) /\ QLe(x, hi)

Reorderings(p) ==
    {[k \in 1..Len(p) |-> p[f[k]]] : f \in Permutations(1..Len(p))}

\* C15: two edge lists that are permutations of each other, with the same
\* N, initial states, T and alpha, give the same final states and the same
\* history: what this run ended with is what a run on any reordering of
\* its edge list ends with.
C15_EdgeOrderIsIrrelevant ==
    (pc = "done") =>
        (\A p \in Reorderings(edges) : \A g \in GarbageVals :
            /\ states = StatesAfter(p, T, g)
            /\ history = HistoryOf(p, g))

\* the law of C15 on the graphs whose slices hold nodes only
Order_EdgeOrderIsIrrelevantInRange ==
    (pc = "done" /\ \A v \in Nodes : Stray(v) = {}) =>
        (\A p \in Reorderings(edges) : \A g \in GarbageVals :
            /\ states = StatesAfter(p, T, g)
            /\ history = HistoryOf(p, g))

(***************************************************************************)
(* Chunk size and schedule.                                                *)
(***************************************************************************)

\* the chunk of the decision table
TableChunk(n, w) ==
    IF n < 1000 THEN Max(1, n \div (4 * w))
    ELSE IF n < 10000
         THEN IF w <= 4 THEN Max(1, n \div (8 * w)) ELSE Max(1, n \div (4 * w))
         ELSE IF w <= 4 THEN Max(1, n \div (16 * w)) ELSE Max(1, n \div (8 * w))

\* the schedule of the decision table: static for every W when 500 <= N < 1000
TableSchedule(n, w) ==
    IF n < 500 THEN "guided"
    ELSE IF n < 1000 THEN "static"
    ELSE IF w <= 4 THEN "static" ELSE "dynamic"

\* the schedule the loop runs under: from N = 500 on, static for W <= 4 and
\* dynamic for W > 4
TableScheduleByThreads(n, w) ==
    IF n < 500 THEN "guided"
    ELSE IF w <= 4 THEN "static" ELSE "dynamic"

\* the chunk is chosen (line 132 is passed); the loop of a step is entered
ChunkChosen == pc \in {"loop", "parallel"}
LoopEntered == pc = "parallel"

\* C16, as stated: without a positive OMP_CHUNK_SIZE, for every N >= 1 and
\* W >= 1 the chunk and the schedule are those of the decision table, the
\* schedule being static for every W when 500 <= N < 1000; with a positive
\* OMP_CHUNK_SIZE the chunk is that value; the chunk is always >= 1.
C16_DecisionTable ==
    /\ chunk >= 1
    /\ (ChunkChosen /\ chunk_env > 0) => (chunk = chunk_env)
    /\ (ChunkChosen /\ chunk_env <= 0) => (chunk = TableChunk(N, W))
    /\ (LoopEntered /\ chunk_env <= 0) => (sched = TableSchedule(N, W))

\* C16, amended: the same, the schedule for 500 <= N < 1000 being static
\* for W <= 4 and dynamic for W > 4, as it is for N >= 1000.
C16_DecisionTableByThreads ==
    /\ chunk >= 1
    /\ (ChunkChosen /\ chunk_env > 0) => (chunk = chunk_env)
    /\ (ChunkChosen /\ chunk_env <= 0) => (chunk = TableChunk(N, W))
    /\ (LoopEntered /\ chunk_env <= 0) => (sched = TableScheduleByThreads(N, W))

\* a loop entered on 500 <= N < 1000 nodes with more than 4 threads and no
\* OMP_CHUNK_SIZE
C16_Witness ==
    /\ LoopEntered
    /\ N >= 500 /\ N < 1000
    /\ W > 4
    /\ chunk_env <= 0
    /\ chunk = TableChunk(N, W)

(***************************************************************************)
(* Exit codes and output files.                                            *)
(***************************************************************************)

\* C13: every fatal error ends the run with no partial output emitted:
\* whenever the tool exits with a non-zero code (1 to 6), neither the
\* history file nor the final-states file has been written by that run.
C13_NoOutputOnFatalError ==
    (exit_code \in 1..6) =>
        (history_file = Unwritten /\ out_states_file = Unwritten)

\* the part of C13 the code keeps: on the exit codes 1 to 5 no file has
\* been written, and on 6 the final-states file has not
Exit_NoOutputBeforeHistoryWrite ==
    /\ (exit_code \in 1..5) =>
          (history_file = Unwritten /\ out_states_file = Unwritten)
    /\ (exit_code = 6) => (out_states_file = Unwritten)

\* the exit code of the first failing stage, the stages taken in order
FirstFailingStage ==
    IF argc < 6 THEN 1
    ELSE IF ~graph_open \/ N_ll <= 0 THEN 2
    ELSE IF ~states_open THEN 3
    ELSE IF read_count < N THEN 4
    ELSE IF ~hist_open THEN 5
    ELSE IF ~out_open THEN 6
    ELSE 0

\* no simulation step has run
NoStepRan == t = 0 /\ history = <<>> /\ acc = {} /\ sched = "none"

\* C14: the exit code identifies the first failing stage, the stages checked
\* in a fixed order (1: fewer than 5 arguments; 2: graph not opened, or
\* N <= 0, or no header; 3: states file not opened; 4: fewer than N values;
\* 5: history file not opened; 6: final-states file not opened; 0
\* otherwise); the exits 1 to 4 happen before any step runs; a declared
\* edge count M that differs from the observed count only emits a
\* diagnostic: it ends no run and changes no exit code.
C14_ExitCodeIsFirstFailingStage ==
    /\ (pc = "exited") => (exit_code = FirstFailingStage)
    /\ (exit_code \in 1..4) => NoStepRan
    /\ warned => (Len(edges) # M_ll)
    /\ pc # "aborted"

\* C14 for the headers whose declared count is not negative
Exit_FirstFailingStageCountNotNegative ==
    (M_ll >= 0) =>
        (/\ (pc = "exited") => (exit_code = FirstFailingStage)
         /\ (exit_code \in 1..4) => NoStepRan
         /\ warned => (Len(edges) # M_ll)
         /\ (pc \notin {"args", "open_graph", "header", "edges"}
              /\ FirstFailingStage \notin {1, 2}) => (warned = (Len(edges) # M_ll))
         /\ pc # "aborted")

(***************************************************************************)
(* Termination.                                                            *)
(***************************************************************************)

\* step k has run to completion: every index processed by step k, the
\* workers joined, the buffers swapped and k + 1 history entries
StepCompleted(k) ==
    /\ pc = "loop"
    /\ t = k + 1
    /\ Len(history) = k + 1
    /\ age_states = [v \in Nodes |-> k]

\* main returned 0 after T steps with the final-states file holding states
Terminated ==
    /\ pc = "exited"
    /\ exit_code = 0
    /\ t = T
    /\ Len(history) = T
    /\ history_file = Written(history)
    /\ out_states_file = Written(states)

\* C18: under fair scheduling of the workers every started step runs to
\* completion (all N indices processed, workers joined, buffers swapped,
\* one history entry appended), and a run with valid inputs and T >= 0
\* terminates in the end after exactly T steps, the final states being the
\* current buffer; the step counter moves by one, at the end of a step.
C18_StepsCompleteAndRunTerminates ==
    /\ \A k \in 0..(MaxT - 1) : (pc = "parallel" /\ t = k) ~> StepCompleted(k)
    /\ <>Terminated
    /\ [][t' = t \/ (t' = t + 1 /\ pc = "push")]_vars

\* the edge list has no edge kept with a source outside [0,N)
SourcesInRange == \A k \in 1..Len(edges) : DroppedPass2(edges[k]) \/ edges[k][1] \in Nodes

\* C18 on the graphs whose kept edges have their source in [0,N)
Live_StepsCompleteAndRunTerminatesInRange ==
    SourcesInRange =>
        (/\ \A k \in 0..(MaxT - 1) : (pc = "parallel" /\ t = k) ~> StepCompleted(k)
         /\ <>Terminated)

====
